---- MODULE Spec2Model ----
(***************************************************************************)
(* Model of bot.py: the duration parser (parse_duration_to_seconds), the   *)
(* auto-unmute scheduler (schedule_unmute and its _task), the mute,        *)
(* unmute, removerole and remindme command handlers, and the guild state   *)
(* they act on.                                                            *)
(*                                                                         *)
(* Handlers and background tasks are asyncio coroutines: the code between  *)
(* two awaits runs atomically, and every await is a point where any other  *)
(* ready coroutine may run.  Each action below is one such atomic stretch. *)
(***************************************************************************)
EXTENDS Integers, Sequences, FiniteSets, TLC

(***************************************************************************)
(* Bounds of the model.                                                    *)
(***************************************************************************)
MaxLen == 4        \* longest generated input text of the parser
MaxTasks == 2      \* auto-unmute tasks alive at once
MaxReminders == 2  \* reminder tasks alive at once
MaxMsgs == 4       \* messages received in one behaviour
MaxNow == 6        \* latest time, in seconds, at which a message is received
MaxOptLen == 5     \* longest generated argument of choose
MaxWarnings == 1   \* warnings recorded for one member

(***************************************************************************)
(* Text: a Python str is a sequence of one-character strings.              *)
(***************************************************************************)
Digits == {"0", "1", "3"}

\* The characters the generated input texts are made of: digits, units in
\* both cases, the space, a whitespace character that is not the space, and
\* a character that is none of these.
Alphabet == {"0", "1", "s", "m", "h", "H", " ", "\t", "x"}

DigitVal(c) == CASE c = "0" -> 0 [] c = "1" -> 1 [] c = "3" -> 3

\* str.lower() on the characters used here.
LowerChar(c) ==
    CASE c = "S" -> "s" [] c = "M" -> "m" [] c = "H" -> "h"
      [] c = "D" -> "d" [] c = "W" -> "w" [] OTHER -> c

\* The characters str.strip() removes at both ends.
IsSpace(c) == c \in {" ", "\t"}

RECURSIVE Strip(_)
Strip(t) ==
    IF t = <<>> THEN t
    ELSE IF IsSpace(Head(t)) THEN Strip(Tail(t))
    ELSE IF IsSpace(t[Len(t)]) THEN Strip(SubSeq(t, 1, Len(t) - 1))
    ELSE t

Lower(t) == [i \in 1..Len(t) |-> LowerChar(t[i])]

\* str.replace(" ", "")
RECURSIVE RemoveSpaces(_)
RemoveSpaces(t) ==
    IF t = <<>> THEN t
    ELSE IF Head(t) = " " THEN RemoveSpaces(Tail(t))
    ELSE <<Head(t)>> \o RemoveSpaces(Tail(t))

\* text.strip().lower().replace(" ", "")
Normalise(t) == RemoveSpaces(Lower(Strip(t)))

\* units = {"s":1, "m":60, "h":3600, "d":86400, "w":604800}
UnitChars == {"s", "m", "h", "d", "w"}
units(u) ==
    CASE u = "s" -> 1 [] u = "m" -> 60 [] u = "h" -> 3600
      [] u = "d" -> 86400 [] u = "w" -> 604800

\* int(amount) for a string of digits.
RECURSIVE ToInt(_)
ToInt(ds) ==
    IF ds = <<>> THEN 0
    ELSE 10 * ToInt(SubSeq(ds, 1, Len(ds) - 1)) + DigitVal(ds[Len(ds)])

\* The lengths n for which (\d+)([smhdw]) matches t at position i with an
\* amount of n digits; the greedy \d+ takes the largest.
MatchLens(t, i) ==
    {n \in 1..(Len(t) - i) :
        /\ \A j \in i..(i + n - 1) : t[j] \in Digits
        /\ t[i + n] \in UnitChars}

MaxOf(S) == CHOOSE n \in S : \A m \in S : m <= n

\* Mutant: the scan stops at the first position where the pattern does
\* not match (re.match from the left instead of re.findall).
RECURSIVE FindallSum_Anchored(_, _)
FindallSum_Anchored(t, i) ==
    IF i > Len(t) \/ MatchLens(t, i) = {} THEN 0
    ELSE LET n == MaxOf(MatchLens(t, i))
         IN  ToInt(SubSeq(t, i, i + n - 1)) * units(t[i + n])
               + FindallSum_Anchored(t, i + n + 1)

\* re.findall(pattern, text) folded with total += int(amount) * units[unit]:
\* scan from position i; a match consumes its characters, a failure moves
\* the scan one character on.
RECURSIVE FindallSum(_, _)
FindallSum(t, i) ==
    IF i > Len(t) THEN 0
    ELSE IF MatchLens(t, i) = {} THEN FindallSum(t, i + 1)
    ELSE LET n == MaxOf(MatchLens(t, i))
         IN  ToInt(SubSeq(t, i, i + n - 1)) * units(t[i + n])
               + FindallSum(t, i + n + 1)

Raise == [ok |-> FALSE, val |-> 0]
Return(v) == [ok |-> TRUE, val |-> v]

\* Mutant: the total is returned without the check for zero.
parse_no_zero_check(text) ==
    LET t == Normalise(text)
    IN  IF t = <<>> THEN Raise ELSE Return(FindallSum(t, 1))

parse_duration_to_seconds(text) ==
    LET t == Normalise(text)
    IN  IF t = <<>> THEN Raise
        ELSE LET total == FindallSum(t, 1)
             IN  IF total = 0 THEN Raise ELSE Return(total)

(***************************************************************************)
(* The bot: guild state, the scheduled_unmutes map, background tasks and   *)
(* the command handlers in flight.                                         *)
(***************************************************************************)
Guilds == {"g1"}
Users == {"u1", "u2"}
Keys == Guilds \X Users            \* key = (guild_id, user_id)
Invokers == {"a1"}                 \* moderators issuing commands

None == <<>>                       \* duration argument left out
DurationArgs == {None, <<"1", "s">>, <<"0", "s">>}

VARIABLES
    text,               \* parser run: the input text
    result,             \* parser run: what parse_duration_to_seconds gave
    members,            \* keys that bot.get_guild(..).get_member(..) resolves
    muted,              \* keys whose member has the Muted role
    scheduled_unmutes,  \* key -> task id, 0 when the key is absent
    tasks,              \* task id -> the _task coroutine with that identity
    reminders,          \* the _remind coroutines
    calls,              \* invoker -> the command handler it has in flight
    event,              \* what a background task did in the last step
    now,                \* time, in seconds: message.created_at
    buckets,            \* (user, command) -> the Cooldown of that bucket
    hist,               \* the messages handled so far and what they led to
    options,            \* choose: its argument
    choice,             \* choose: what it replied
    hier,               \* the guild's role hierarchy and owner
    nicks,              \* key -> the member's nickname
    warnings_store      \* key -> number of warnings recorded

vars == <<text, result, members, muted, scheduled_unmutes, tasks, reminders,
          calls, event, now, buckets, hist, options, choice, hier, nicks,
          warnings_store>>

parseVars == <<text, result>>

\* The state of the message router and its cooldowns.
chatVars == <<now, buckets, hist>>

\* The state the scheduler and the moderation commands do not touch.
chooseVars == <<options, choice>>

\* The guild state the scheduler does not touch.
guildVars == <<hier, nicks, warnings_store>>

restVars == <<chatVars, chooseVars, guildVars>>

NotRun == [ok |-> FALSE, val |-> -1]

Idle == [cmd |-> "idle", key |-> <<>>, duration |-> None, pc |-> "idle"]

TaskIds == 1..MaxTasks
ReminderIds == 1..MaxReminders

\* No task object has this identity (none yet, or it finished and was
\* garbage collected).
NoTask ==
    [key |-> <<>>, seconds |-> 0, left |-> 0, pc |-> "nil",
     cancelReq |-> FALSE, cancelBy |-> "none", superseded |-> FALSE,
     stale |-> FALSE]

NoReminder == [author |-> "", seconds |-> 0, left |-> 0, pc |-> "nil"]

\* What a background task did in a step: the id of the auto-unmute task
\* or of the reminder, and
\*   remove_roles  the Muted role was removed from the member
\*   send          the auto-unmute message was sent
\*   returned      the task returned early (guild, member or role missing)
\*   failed        an awaited call raised
\*   cancelled     CancelledError ended the task, nothing else happened
\*   dm, channel   the reminder was delivered that way
NoEvent == [kind |-> "none", id |-> 0, what |-> "none"]
TaskEvent(t, what) == [kind |-> "unmute", id |-> t, what |-> what]
ReminderEvent(r, what) == [kind |-> "remind", id |-> r, what |-> what]

\* guild and member both still resolvable
KeyLive(k) == k \in members

(***************************************************************************)
(* Cooldowns: @commands.cooldown(2, 5, commands.BucketType.user) keeps one *)
(* Cooldown object per user for the command it decorates.                  *)
(***************************************************************************)
rate == 2
per == 5

ChatUsers == {"u1"}
CooledCommands == {"pass", "flip"}
Buckets == ChatUsers \X CooledCommands

\* A Cooldown nobody has used yet: all its tokens, no window.
FreshCooldown == [window |-> 0, tokens |-> rate]

ChatInit ==
    /\ now = 0
    /\ buckets = [b \in Buckets |-> FreshCooldown]
    /\ hist = <<>>

\* choose has not replied.
NotChosen == [reply |-> "none", pick |-> <<>>]

ChooseInit == options = <<>> /\ choice = NotChosen

(***************************************************************************)
(* Role hierarchy: the position of everybody's top role, the position of   *)
(* the Muted role, and the guild owner.                                    *)
(***************************************************************************)
Bot == "bot"
People == Invokers \cup Users \cup {Bot}

\* The moderator is above every member and the bot above everybody.
Settled ==
    [top |-> [p \in People |->
                IF p = Bot THEN 4 ELSE IF p \in Invokers THEN 3 ELSE 2],
     role |-> 1, owner |-> "nobody here"]

\* The hierarchies the guild's administrators can set up: member u1 as high
\* as the moderator, u1 the owner, the bot no higher than u1, the bot no
\* higher than the Muted role.
Hierarchies ==
    {Settled,
     [Settled EXCEPT !.top["u1"] = 3],
     [Settled EXCEPT !.owner = "u1"],
     [Settled EXCEPT !.top[Bot] = 2],
     [Settled EXCEPT !.top[Bot] = 1]}

\* _can_act(invoker, target)
_can_act(invoker, target) ==
    IF target = invoker \/ target = hier.owner THEN FALSE
    ELSE hier.top[invoker] > hier.top[target]

\* _role_height_ok(guild, role) for the Muted role; the gateway lets the
\* bot add or remove the role only if this holds.
_role_height_ok == hier.top[Bot] > hier.role

\* not (ctx.guild.me.top_role <= member.top_role); the gateway lets the bot
\* kick, ban or rename only members below it that are not the owner.
BotAbove(target) == hier.top[Bot] > hier.top[target]

GatewayLets(target) == BotAbove(target) /\ target # hier.owner

GuildInit ==
    /\ hier = Settled
    /\ nicks = [k \in Keys |-> ""]
    /\ warnings_store = [k \in Keys |-> 0]

RestInit == ChatInit /\ ChooseInit /\ GuildInit

BotInit ==
    /\ members = Keys
    /\ muted = {}
    /\ scheduled_unmutes = [k \in Keys |-> 0]
    /\ tasks = [t \in TaskIds |-> NoTask]
    /\ reminders = [r \in ReminderIds |-> NoReminder]
    /\ calls = [a \in Invokers |-> Idle]
    /\ event = NoEvent

\* The handler of invoker a returns (after its last reply, if any).
Finish(a) == calls' = [calls EXCEPT ![a] = Idle]

Goto(a, label) == calls' = [calls EXCEPT ![a].pc = label]

\* The handler is left with one last reply to send.
Reply(a, label) == calls' = [calls EXCEPT ![a] = [Idle EXCEPT !.pc = label]]


(***************************************************************************)
(* asyncio.Task                                                            *)
(***************************************************************************)
\* A task object that exists and has not finished: not Task.done().
Alive(t) == tasks[t].pc # "nil"

\* Task.cancel() on task t of ts, requested by `who`: the task gets
\* CancelledError at the await it is suspended in, when it next runs.
cancel(ts, t, who) ==
    [ts EXCEPT ![t].cancelReq = TRUE, ![t].cancelBy = who]

\* A task that still waits out its delay.
Waiting(t) == tasks[t].pc \in {"new", "sleep"}

\* A task that is armed: created, not yet fired, not cancelled.
Armed(t) == Waiting(t) /\ ~tasks[t].cancelReq

NewTask(k, seconds) ==
    [key |-> k, seconds |-> seconds, left |-> seconds, pc |-> "new",
     cancelReq |-> FALSE, cancelBy |-> "none", superseded |-> FALSE,
     stale |-> FALSE]

\* asyncio.create_task: the new task object takes an identity no living
\* task has.
FreeIds == {t \in TaskIds : ~Alive(t)}
NewId == CHOOSE t \in FreeIds : \A u \in FreeIds : t <= u

\* scheduled_unmutes.pop(key, None)
pop(m, k) == [m EXCEPT ![k] = 0]

\* schedule_unmute(guild_id, user_id, seconds): no await inside, one step.
\* Every task of the key that still waits out its delay is marked as
\* superseded by this call.
schedule_unmute(k, seconds) ==
    LET old == scheduled_unmutes[k]
        ts1 == IF old # 0 /\ Alive(old) THEN cancel(tasks, old, "schedule")
               ELSE tasks
        ts2 == [t \in TaskIds |->
                   IF ts1[t].key = k /\ Waiting(t)
                   THEN [ts1[t] EXCEPT !.superseded = TRUE] ELSE ts1[t]]
    IN  /\ tasks' = [ts2 EXCEPT ![NewId] = NewTask(k, seconds)]
        /\ scheduled_unmutes' = [scheduled_unmutes EXCEPT ![k] = NewId]

\* Mutant: the task ends without the finally clause.
TaskFinally_KeepsEntry(t) ==
    /\ tasks' = [tasks EXCEPT ![t] = NoTask]
    /\ UNCHANGED scheduled_unmutes

\* The finally clause of _task; the task is done.
TaskFinally(t) ==
    /\ tasks' = [tasks EXCEPT ![t] = NoTask]
    /\ scheduled_unmutes' = pop(scheduled_unmutes, tasks[t].key)

\* First step of the task: runs up to asyncio.sleep(seconds).
TaskStart(t) ==
    /\ tasks[t].pc = "new" /\ ~tasks[t].cancelReq
    /\ tasks' = [tasks EXCEPT ![t].pc = "sleep"]
    /\ event' = NoEvent
    /\ UNCHANGED <<parseVars, restVars, members, muted, scheduled_unmutes, reminders, calls>>

\* Mutant: the task goes on without waiting for the end of its sleep.
TaskWake_Early(t) ==
    LET k == tasks[t].key IN
    /\ tasks[t].pc = "sleep" /\ ~tasks[t].cancelReq
    /\ IF KeyLive(k) /\ k \in muted
       THEN /\ tasks' = [tasks EXCEPT ![t].pc = "remove_roles"]
            /\ UNCHANGED scheduled_unmutes
       ELSE TaskFinally(t)
    /\ event' = IF KeyLive(k) /\ k \in muted THEN NoEvent
                ELSE TaskEvent(t, "returned")
    /\ UNCHANGED <<parseVars, restVars, members, muted, reminders, calls>>

\* The sleep is over: guild, member and role are looked up, and with all
\* three there member.remove_roles(role) is awaited.
TaskWake(t) ==
    LET k == tasks[t].key IN
    /\ tasks[t].pc = "sleep" /\ ~tasks[t].cancelReq /\ tasks[t].left = 0
    /\ IF KeyLive(k) /\ k \in muted
       THEN /\ tasks' = [tasks EXCEPT ![t].pc = "remove_roles"]
            /\ UNCHANGED scheduled_unmutes
       ELSE TaskFinally(t)
    /\ event' = IF KeyLive(k) /\ k \in muted THEN NoEvent
                ELSE TaskEvent(t, "returned")
    /\ UNCHANGED <<parseVars, restVars, members, muted, reminders, calls>>

\* await member.remove_roles(role) succeeds; the channel is looked up and,
\* if there is one, channel.send(...) is awaited.
TaskRemoveRoles(t) ==
    LET k == tasks[t].key IN
    /\ tasks[t].pc = "remove_roles" /\ ~tasks[t].cancelReq
    /\ KeyLive(k) /\ _role_height_ok
    /\ muted' = muted \ {k}
    /\ event' = TaskEvent(t, "remove_roles")
    /\ \E channel \in BOOLEAN :
         IF channel
         THEN /\ tasks' = [tasks EXCEPT ![t].pc = "send"]
              /\ UNCHANGED scheduled_unmutes
         ELSE TaskFinally(t)
    /\ UNCHANGED <<parseVars, restVars, members, reminders, calls>>

\* await member.remove_roles(role) raises (Forbidden, NotFound, HTTP error).
TaskRemoveRolesFails(t) ==
    /\ tasks[t].pc = "remove_roles" /\ ~tasks[t].cancelReq
    /\ TaskFinally(t)
    /\ event' = TaskEvent(t, "failed")
    /\ UNCHANGED <<parseVars, restVars, members, muted, reminders, calls>>

\* await channel.send(...) succeeds.
TaskSend(t) ==
    /\ tasks[t].pc = "send" /\ ~tasks[t].cancelReq
    /\ TaskFinally(t)
    /\ event' = TaskEvent(t, "send")
    /\ UNCHANGED <<parseVars, restVars, members, muted, reminders, calls>>

\* await channel.send(...) raises.
TaskSendFails(t) ==
    /\ tasks[t].pc = "send" /\ ~tasks[t].cancelReq
    /\ TaskFinally(t)
    /\ event' = TaskEvent(t, "failed")
    /\ UNCHANGED <<parseVars, restVars, members, muted, reminders, calls>>

\* The cancelled task runs again: CancelledError is thrown into the
\* coroutine where it is suspended.  A coroutine that never started is
\* closed without running its body; otherwise the except and finally
\* clauses run.  A request that was in flight may or may not have been
\* processed by the server.
TaskCancelled(t) ==
    LET k == tasks[t].key IN
    /\ tasks[t].cancelReq /\ Alive(t)
    /\ IF tasks[t].pc = "new"
       THEN /\ tasks' = [tasks EXCEPT ![t] = NoTask]
            /\ event' = TaskEvent(t, "cancelled")
            /\ UNCHANGED <<scheduled_unmutes, muted>>
       ELSE \E processed \in BOOLEAN :
              /\ processed => tasks[t].pc \in {"remove_roles", "send"}
              /\ (processed /\ tasks[t].pc = "remove_roles")
                   => (KeyLive(k) /\ _role_height_ok)
              /\ muted' = IF processed /\ tasks[t].pc = "remove_roles"
                          THEN muted \ {k} ELSE muted
              /\ event' = TaskEvent(t, IF processed THEN tasks[t].pc
                                           ELSE "cancelled")
              /\ TaskFinally(t)
    /\ UNCHANGED <<parseVars, restVars, members, reminders, calls>>

(***************************************************************************)
(* Command handlers.  An exception that leaves a handler reaches           *)
(* on_command_error, which replies "Unexpected error".                     *)
(***************************************************************************)
\* An awaited call of the handler raised: discord.Forbidden is answered
\* inside the handler (handled), anything else leaves the handler.
Raised(a, handled) ==
    Reply(a, IF handled THEN "forbidden" ELSE "command_error")

\* The last reply of the handler, or of on_command_error, was sent.
Replied(a) ==
    /\ calls[a].pc \in {"forbidden", "command_error", "mute_error",
                        "remind_error", "unmuted", "denied", "removed",
                        "warned", "renamed", "role_added"}
    /\ Finish(a)
    /\ event' = NoEvent
    /\ UNCHANGED <<parseVars, restVars, members, muted, scheduled_unmutes, tasks, reminders>>

(***************************************************************************)
(* remindme and its _remind task                                           *)
(***************************************************************************)
NewReminder(a, seconds) ==
    [author |-> a, seconds |-> seconds, left |-> seconds, pc |-> "new"]

FreeReminderIds == {r \in ReminderIds : reminders[r].pc = "nil"}

\* Handlers in flight that will create a reminder when they resume.
RemindingCalls == {b \in Invokers : calls[b].pc = "remind_confirm"}

\* $remindme <time> <message>: the duration is parsed first; a ValueError
\* is answered with "Time format invalid", otherwise the confirmation is
\* sent.
remindme(a, time) ==
    LET parsed == parse_duration_to_seconds(time) IN
    /\ calls[a] = Idle
    /\ parsed.ok =>
         Cardinality(ReminderIds \ FreeReminderIds) + Cardinality(RemindingCalls)
           < MaxReminders
    /\ IF parsed.ok
       THEN calls' = [calls EXCEPT ![a] =
                        [cmd |-> "remindme", key |-> <<>>, duration |-> time,
                         pc |-> "remind_confirm"]]
       ELSE Reply(a, "remind_error")
    /\ event' = NoEvent
    /\ UNCHANGED <<parseVars, restVars, members, muted, scheduled_unmutes, tasks, reminders>>

\* The confirmation was sent: asyncio.create_task(_remind()).
RemindmeConfirmed(a) ==
    LET seconds == parse_duration_to_seconds(calls[a].duration).val
        r == CHOOSE r \in FreeReminderIds : \A q \in FreeReminderIds : r <= q
    IN
    /\ calls[a].pc = "remind_confirm"
    /\ reminders' = [reminders EXCEPT ![r] = NewReminder(a, seconds)]
    /\ Finish(a)
    /\ event' = NoEvent
    /\ UNCHANGED <<parseVars, restVars, members, muted, scheduled_unmutes, tasks>>

\* Sending the confirmation raised: no task is created.
RemindmeConfirmFails(a) ==
    /\ calls[a].pc = "remind_confirm"
    /\ Raised(a, FALSE)
    /\ event' = NoEvent
    /\ UNCHANGED <<parseVars, restVars, members, muted, scheduled_unmutes, tasks, reminders>>

\* First step of _remind: runs up to asyncio.sleep(seconds).
ReminderStart(r) ==
    /\ reminders[r].pc = "new"
    /\ reminders' = [reminders EXCEPT ![r].pc = "sleep"]
    /\ event' = NoEvent
    /\ UNCHANGED <<parseVars, restVars, members, muted, scheduled_unmutes, tasks, calls>>

\* Mutant: the sleep returns before its time.
ReminderWake_Early(r) ==
    /\ reminders[r].pc = "sleep"
    /\ reminders' = [reminders EXCEPT ![r].pc = "dm"]
    /\ event' = NoEvent
    /\ UNCHANGED <<parseVars, restVars, members, muted, scheduled_unmutes, tasks, calls>>

\* The sleep is over: ctx.author.send(...) is awaited.
ReminderWake(r) ==
    /\ reminders[r].pc = "sleep" /\ reminders[r].left = 0
    /\ reminders' = [reminders EXCEPT ![r].pc = "dm"]
    /\ event' = NoEvent
    /\ UNCHANGED <<parseVars, restVars, members, muted, scheduled_unmutes, tasks, calls>>

\* The direct message went out, or it raised discord.Forbidden and the
\* channel message is awaited instead, or it raised something else.
ReminderDM(r) ==
    /\ reminders[r].pc = "dm"
    /\ \E how \in {"sent", "forbidden", "error"} :
         /\ reminders' = IF how = "forbidden"
                         THEN [reminders EXCEPT ![r].pc = "fallback"]
                         ELSE [reminders EXCEPT ![r] = NoReminder]
         /\ event' = IF how = "sent" THEN ReminderEvent(r, "dm")
                     ELSE IF how = "error" THEN ReminderEvent(r, "failed")
                     ELSE NoEvent
    /\ UNCHANGED <<parseVars, restVars, members, muted, scheduled_unmutes, tasks, calls>>

\* await ctx.send(...) in the except clause: sent, or it raised.
ReminderFallback(r) ==
    /\ reminders[r].pc = "fallback"
    /\ reminders' = [reminders EXCEPT ![r] = NoReminder]
    /\ \E ok \in BOOLEAN :
         event' = ReminderEvent(r, IF ok THEN "channel" ELSE "failed")
    /\ UNCHANGED <<parseVars, restVars, members, muted, scheduled_unmutes, tasks, calls>>

(***************************************************************************)
(* mute, unmute, removerole                                                *)
(***************************************************************************)
\* Mute handlers in flight that will arm a task when they resume.
ArmingCalls ==
    {b \in Invokers : calls[b].cmd = "mute"
                      /\ parse_duration_to_seconds(calls[b].duration).ok}

\* $mute <member> [duration]: without _can_act the denial is the reply;
\* otherwise the member does not have the Muted role, so
\* member.add_roles(role) is awaited.
mute(a, k, duration) ==
    /\ calls[a] = Idle
    /\ KeyLive(k)
    /\ IF ~_can_act(a, k[2])
       THEN Reply(a, "denied")
       ELSE /\ k \notin muted
            /\ parse_duration_to_seconds(duration).ok
                 => Cardinality(TaskIds \ FreeIds) + Cardinality(ArmingCalls)
                      < MaxTasks
            /\ calls' = [calls EXCEPT ![a] =
                           [cmd |-> "mute", key |-> k, duration |-> duration,
                            pc |-> "add_roles"]]
    /\ event' = NoEvent
    /\ UNCHANGED <<parseVars, restVars, members, muted, scheduled_unmutes, tasks, reminders>>

\* add_roles succeeded; the "Muted" reply is awaited.  A new mute of the
\* member begins: the tasks that exist for the key were armed by earlier
\* mutes and are marked stale.
MuteAddRoles(a) ==
    /\ calls[a].cmd = "mute" /\ calls[a].pc = "add_roles"
    /\ KeyLive(calls[a].key) /\ _role_height_ok
    /\ muted' = muted \cup {calls[a].key}
    /\ tasks' = [t \in TaskIds |->
                   IF Alive(t) /\ tasks[t].key = calls[a].key
                   THEN [tasks[t] EXCEPT !.stale = TRUE] ELSE tasks[t]]
    /\ Goto(a, "send")
    /\ event' = NoEvent
    /\ UNCHANGED <<parseVars, restVars, members, scheduled_unmutes, reminders>>

\* add_roles raised.
MuteAddRolesFails(a) ==
    /\ calls[a].cmd = "mute" /\ calls[a].pc = "add_roles"
    /\ \E handled \in BOOLEAN : Raised(a, handled)
    /\ event' = NoEvent
    /\ UNCHANGED <<parseVars, restVars, members, muted, scheduled_unmutes, tasks, reminders>>

\* Mutant: the parsed value is used without the ValueError path.
MuteSent_NoCheck(a) ==
    LET k == calls[a].key
        duration == calls[a].duration
        parsed == parse_duration_to_seconds(duration)
    IN
    /\ calls[a].cmd = "mute" /\ calls[a].pc = "send"
    /\ Cardinality(FreeIds) > 0
    /\ IF duration = None
       THEN Finish(a) /\ UNCHANGED <<tasks, scheduled_unmutes>>
       ELSE Finish(a) /\ schedule_unmute(k, parsed.val)
    /\ event' = NoEvent
    /\ UNCHANGED <<parseVars, restVars, members, muted, reminders>>

\* The "Muted" reply was sent.  With a duration argument it is parsed and
\* the auto-unmute is scheduled; a ValueError is answered with a reply.
MuteSent(a) ==
    LET k == calls[a].key
        duration == calls[a].duration
        parsed == parse_duration_to_seconds(duration)
    IN
    /\ calls[a].cmd = "mute" /\ calls[a].pc = "send"
    /\ IF duration = None
       THEN Finish(a) /\ UNCHANGED <<tasks, scheduled_unmutes>>
       ELSE IF parsed.ok
       THEN Finish(a) /\ schedule_unmute(k, parsed.val)
       ELSE Reply(a, "mute_error") /\ UNCHANGED <<tasks, scheduled_unmutes>>
    /\ event' = NoEvent
    /\ UNCHANGED <<parseVars, restVars, members, muted, reminders>>

\* Sending the "Muted" reply raised inside the try block: the handler ends
\* before the duration is looked at.
MuteSendFails(a) ==
    /\ calls[a].cmd = "mute" /\ calls[a].pc = "send"
    /\ \E handled \in BOOLEAN : Raised(a, handled)
    /\ event' = NoEvent
    /\ UNCHANGED <<parseVars, restVars, members, muted, scheduled_unmutes, tasks, reminders>>

\* $unmute <member>: the member has the Muted role, so
\* member.remove_roles(role) is awaited.
unmute(a, k) ==
    /\ calls[a] = Idle
    /\ KeyLive(k)
    /\ k \in muted
    /\ calls' = [calls EXCEPT ![a] =
                   [cmd |-> "unmute", key |-> k, duration |-> None,
                    pc |-> "remove_roles"]]
    /\ event' = NoEvent
    /\ UNCHANGED <<parseVars, restVars, members, muted, scheduled_unmutes, tasks, reminders>>

\* Mutant: the entry is popped, its task is not cancelled.
UnmuteRemoveRoles_NoCancel(a) ==
    LET k == calls[a].key IN
    /\ calls[a].cmd = "unmute" /\ calls[a].pc = "remove_roles"
    /\ KeyLive(k) /\ _role_height_ok
    /\ muted' = muted \ {k}
    /\ scheduled_unmutes' = pop(scheduled_unmutes, k)
    /\ Reply(a, "unmuted")
    /\ event' = NoEvent
    /\ UNCHANGED <<parseVars, restVars, members, tasks, reminders>>

\* remove_roles succeeded: the entry is popped and its task cancelled;
\* the "Unmuted" reply is awaited.
UnmuteRemoveRoles(a) ==
    LET k == calls[a].key
        task == scheduled_unmutes[k]
    IN
    /\ calls[a].cmd = "unmute" /\ calls[a].pc = "remove_roles"
    /\ KeyLive(k) /\ _role_height_ok
    /\ muted' = muted \ {k}
    /\ scheduled_unmutes' = pop(scheduled_unmutes, k)
    /\ tasks' = IF task # 0 /\ Alive(task) THEN cancel(tasks, task, "unmute")
                ELSE tasks
    /\ Reply(a, "unmuted")
    /\ event' = NoEvent
    /\ UNCHANGED <<parseVars, restVars, members, reminders>>

\* remove_roles raised: the handler ends without touching the map.
UnmuteRemoveRolesFails(a) ==
    /\ calls[a].cmd = "unmute" /\ calls[a].pc = "remove_roles"
    /\ \E handled \in BOOLEAN : Raised(a, handled)
    /\ event' = NoEvent
    /\ UNCHANGED <<parseVars, restVars, members, muted, scheduled_unmutes, tasks, reminders>>

\* $removerole <member> Muted by invoker a: with _role_height_ok the role is
\* removed; the map is not touched.
removerole(a, k) ==
    /\ KeyLive(k) /\ _role_height_ok
    /\ k \in muted
    /\ muted' = muted \ {k}
    /\ event' = NoEvent
    /\ UNCHANGED <<parseVars, restVars, members, scheduled_unmutes, tasks, reminders, calls>>

(***************************************************************************)
(* Environment                                                             *)
(***************************************************************************)
\* The coroutines suspended in asyncio.sleep with time left.
Sleepers == {t \in TaskIds : tasks[t].pc = "sleep" /\ tasks[t].left > 0}
ReminderSleepers ==
    {r \in ReminderIds : reminders[r].pc = "sleep" /\ reminders[r].left > 0}

\* One second passes.
Tick ==
    /\ Sleepers # {} \/ ReminderSleepers # {}
    /\ tasks' = [t \in TaskIds |->
                   IF t \in Sleepers THEN [tasks[t] EXCEPT !.left = @ - 1]
                   ELSE tasks[t]]
    /\ reminders' = [r \in ReminderIds |->
                   IF r \in ReminderSleepers
                   THEN [reminders[r] EXCEPT !.left = @ - 1]
                   ELSE reminders[r]]
    /\ event' = NoEvent
    /\ UNCHANGED <<parseVars, restVars, members, muted, scheduled_unmutes, calls>>

\* The member leaves the guild (or is kicked or banned): the roles go too.
MemberLeaves(k) ==
    /\ k \in members
    /\ members' = members \ {k}
    /\ muted' = muted \ {k}
    /\ event' = NoEvent
    /\ UNCHANGED <<parseVars, restVars, scheduled_unmutes, tasks, reminders, calls>>

\* The bot is removed from the guild: bot.get_guild gives None.
GuildGone(g) ==
    /\ \E k \in members : k[1] = g
    /\ members' = {k \in members : k[1] # g}
    /\ muted' = {k \in muted : k[1] # g}
    /\ event' = NoEvent
    /\ UNCHANGED <<parseVars, restVars, scheduled_unmutes, tasks, reminders, calls>>

(***************************************************************************)
(* Specification of the bot                                                *)
(***************************************************************************)
Init ==
    /\ text = <<>>
    /\ result = NotRun
    /\ BotInit
    /\ RestInit

\* The commands aimed at the members K, the auto-unmute tasks and the
\* environment.
Moderation(K) ==
    \/ \E a \in Invokers, k \in K, d \in DurationArgs : mute(a, k, d)
    \/ \E a \in Invokers : MuteAddRoles(a)
    \/ \E a \in Invokers : MuteAddRolesFails(a)
    \/ \E a \in Invokers : MuteSent(a)
    \/ \E a \in Invokers : MuteSendFails(a)
    \/ \E a \in Invokers, k \in K : unmute(a, k)
    \/ \E a \in Invokers : UnmuteRemoveRoles(a)
    \/ \E a \in Invokers : UnmuteRemoveRolesFails(a)
    \/ \E a \in Invokers : Replied(a)
    \/ \E a \in Invokers, k \in K : removerole(a, k)
    \/ \E t \in TaskIds : TaskStart(t)
    \/ \E t \in TaskIds : TaskWake(t)
    \/ \E t \in TaskIds : TaskRemoveRoles(t)
    \/ \E t \in TaskIds : TaskRemoveRolesFails(t)
    \/ \E t \in TaskIds : TaskSend(t)
    \/ \E t \in TaskIds : TaskSendFails(t)
    \/ \E t \in TaskIds : TaskCancelled(t)
    \/ Tick
    \/ \E k \in K : MemberLeaves(k)
    \/ \E g \in Guilds : GuildGone(g)

Reminding ==
    \/ \E a \in Invokers, d \in DurationArgs \ {None} : remindme(a, d)
    \/ \E a \in Invokers : RemindmeConfirmed(a)
    \/ \E a \in Invokers : RemindmeConfirmFails(a)
    \/ \E r \in ReminderIds : ReminderStart(r)
    \/ \E r \in ReminderIds : ReminderWake(r)
    \/ \E r \in ReminderIds : ReminderDM(r)
    \/ \E r \in ReminderIds : ReminderFallback(r)

\* Moderation of every member of the guild.
Next == Moderation(Keys)

Spec == Init /\ [][Next]_vars

\* Reminders, next to the moderation of one member.
OneMember == {<<"g1", "u1">>}

NextRemind == Reminding \/ Moderation(OneMember)

SpecRemind == Init /\ [][NextRemind]_vars

(***************************************************************************)
(* Specification of the parser: one call of parse_duration_to_seconds on   *)
(* an input text.                                                          *)
(***************************************************************************)
RECURSIVE TextsOfLen(_)
TextsOfLen(n) ==
    IF n = 0 THEN {<<>>}
    ELSE {<<c>> \o t : c \in Alphabet, t \in TextsOfLen(n - 1)}

\* The texts of the specification's examples.
Examples ==
    {<<"1", "h", "3", "0", "m">>, <<"3", "0", "m", "1", "h">>,
     <<"a", "b", "c">>, <<"0", "s">>, <<>>,
     <<"1", "w", "1", "d">>, <<" ", "1", "H", " ", "3", "0", "M", " ">>}

Texts == UNION {TextsOfLen(n) : n \in 0..MaxLen} \cup Examples

InitParse ==
    /\ text \in Texts
    /\ result = NotRun
    /\ BotInit
    /\ RestInit

Parse ==
    /\ result = NotRun
    /\ result' = parse_duration_to_seconds(text)
    /\ UNCHANGED <<text, members, muted, scheduled_unmutes, tasks, reminders,
                   calls, event, restVars>>

NextParse == Parse

SpecParse == InitParse /\ [][NextParse]_vars

(***************************************************************************)
(* Properties of the scheduler, checked under Spec.                        *)
(***************************************************************************)
\* The auto-unmute task t did something to the guild in this step.
Acts(t) ==
    /\ event'.kind = "unmute" /\ event'.id = t
    /\ event'.what \in {"remove_roles", "send"}
    /\ Alive(t)

\* C1: a task that was still waiting out its delay when schedule_unmute
\* was called again for its key never removes the Muted role and never
\* sends its auto-unmute message.
C1_SupersededNeverActs ==
    [][\A t \in TaskIds : tasks[t].superseded => ~Acts(t)]_vars

\* C2: whenever an auto-unmute is armed for a key (created, not fired, not
\* cancelled), scheduled_unmutes[key] is exactly that task.
C2_ArmedIsMapped ==
    \A t \in TaskIds : Armed(t) => scheduled_unmutes[tasks[t].key] = t

ArmedFor(k) == {t \in TaskIds : Armed(t) /\ tasks[t].key = k}

\* C3: at most one auto-unmute is armed per subject key.
C3_OneArmedPerKey ==
    \A k \in Keys : Cardinality(ArmedFor(k)) <= 1

\* The unmute handler of invoker a got the Muted role removed in this step.
UnmuteRemoved(a) ==
    /\ calls[a].cmd = "unmute" /\ calls[a].pc = "remove_roles"
    /\ calls'[a] # calls[a]
    /\ calls[a].key \in muted /\ calls[a].key \notin muted'

\* C4: when unmute succeeds and the key has an entry whose task has not
\* fired, the entry is gone and the task is cancelled, and a task that
\* unmute cancelled while it waited never acts; when the key has no entry,
\* the step raises nothing and changes neither the map nor the tasks.
C4_UnmuteCancels ==
    [][/\ \A a \in Invokers :
            UnmuteRemoved(a) =>
              LET k == calls[a].key
                  t == scheduled_unmutes[k]
              IN  /\ calls'[a].pc = "unmuted"
                  /\ IF t # 0
                     THEN /\ scheduled_unmutes'[k] = 0
                          /\ Waiting(t) => /\ tasks'[t].cancelReq
                                           /\ tasks'[t].pc = tasks[t].pc
                     ELSE /\ scheduled_unmutes' = scheduled_unmutes
                          /\ tasks' = tasks
       /\ \A t \in TaskIds :
            (Waiting(t) /\ tasks[t].cancelReq /\ tasks[t].cancelBy = "unmute")
              => /\ ~Acts(t)
                 /\ \/ tasks'[t] = NoTask
                    \/ /\ tasks'[t].cancelReq
                       /\ tasks'[t].pc = tasks[t].pc
      ]_vars

\* C4 witness: a task that unmute cancelled while it slept, its entry gone.
C4_Witness ==
    \E t \in TaskIds :
        /\ tasks[t].pc = "sleep" /\ tasks[t].cancelReq
        /\ tasks[t].cancelBy = "unmute"
        /\ scheduled_unmutes[tasks[t].key] = 0
        /\ \E a \in Invokers : calls[a].pc = "unmuted"

\* C5: a task whose cancellation overlaps its firing either does both the
\* role removal and the message or neither: it never ends cancelled with
\* the role removed by it and no message sent.
C5_AllOrNothing ==
    [][\A t \in TaskIds :
         (Alive(t) /\ tasks[t].cancelReq /\ event'.kind = "unmute" /\ event'.id = t)
           => /\ ~(event'.what = "cancelled" /\ tasks[t].pc = "send")
              /\ ~(event'.what = "remove_roles"
                    /\ tasks[t].key \in muted /\ tasks[t].key \notin muted')]_vars

\* The auto-unmute task t failed or returned early in this step.
FailsOrReturns(t) ==
    /\ event'.kind = "unmute" /\ event'.id = t
    /\ event'.what \in {"failed", "returned"}
    /\ Alive(t) /\ ~Alive(t)'

\* C6: when the auto-unmute action fails or returns early, the entry of its
\* key is removed, and the entries and tasks of every other key are left
\* as they were.
C6_FailureClearsEntry ==
    [][\A t \in TaskIds :
         FailsOrReturns(t) =>
           LET k == tasks[t].key
           IN  /\ scheduled_unmutes'[k] = 0
               /\ \A k2 \in Keys \ {k} :
                    scheduled_unmutes'[k2] = scheduled_unmutes[k2]
               /\ \A u \in TaskIds :
                    tasks[u].key # k => tasks'[u] = tasks[u]]_vars

\* C6 witness: a task just failed while the other key has an armed task
\* and its entry.
C6_Witness ==
    /\ event.kind = "unmute" /\ event.what = "failed"
    /\ ~Alive(event.id)
    /\ \E u \in TaskIds : Armed(u) /\ scheduled_unmutes[tasks[u].key] = u

(***************************************************************************)
(* Liveness.  The event loop runs every task that is ready, so a task      *)
(* that can take a step eventually takes one; an awaited request ends by   *)
(* returning or raising; and time passes for the sleeping tasks.           *)
(***************************************************************************)
TaskStep(t) ==
    \/ TaskStart(t)
    \/ TaskWake(t)
    \/ TaskRemoveRoles(t)
    \/ TaskRemoveRolesFails(t)
    \/ TaskSend(t)
    \/ TaskSendFails(t)
    \/ TaskCancelled(t)

Fairness ==
    /\ WF_vars(Tick)
    /\ \A t \in TaskIds : WF_vars(TaskStep(t))

\* Liveness is checked on the commands aimed at one member: every key has
\* its own entry and its own tasks, and the tasks of one key still replace
\* and cancel each other.
NextFair == Moderation(OneMember)

FairSpec == Init /\ [][NextFair]_vars /\ Fairness

\* C7 as stated: a task that is not cancelled and finds the member in the
\* guild with the Muted role ends with the role removed by it.
C7_RoleAlwaysRemoved ==
    [][\A t \in TaskIds :
         (tasks[t].pc = "remove_roles" /\ ~tasks[t].cancelReq /\ ~Alive(t)')
           => event' = TaskEvent(t, "remove_roles")]_vars

\* C7 amended: an armed auto-unmute that is not cancelled does not act
\* before its delay has elapsed and eventually ends with its entry removed
\* from scheduled_unmutes; if it then finds the member in the guild with
\* the Muted role, the removal is attempted, and the role is removed unless
\* the remove_roles request itself raises.
C7_ArmedEventuallyFires ==
    /\ [](\A t \in TaskIds :
            tasks[t].pc \in {"remove_roles", "send"} => tasks[t].left = 0)
    /\ \A t \in TaskIds :
         Armed(t) ~> \/ tasks[t].cancelReq
                     \/ /\ ~Alive(t)
                        /\ \A k \in Keys : scheduled_unmutes[k] # t
    /\ \A t \in TaskIds :
         (tasks[t].pc = "remove_roles" /\ ~tasks[t].cancelReq)
           ~> \/ tasks[t].cancelReq
              \/ event = TaskEvent(t, "remove_roles")
              \/ event = TaskEvent(t, "failed")

\* C7 witness: an auto-unmute that was never cancelled has removed the role
\* after its delay and is sending its message.
C7_Witness ==
    \E t \in TaskIds :
        /\ tasks[t].pc = "send" /\ ~tasks[t].cancelReq /\ tasks[t].left = 0
        /\ tasks[t].seconds > 0
        /\ tasks[t].key \notin muted
        /\ event = TaskEvent(t, "remove_roles")

(***************************************************************************)
(* Delays of the armed actions.                                            *)
(***************************************************************************)
ErrorReplies == {"mute_error", "remind_error"}

\* C8: every auto-unmute and every reminder that exists has a delay of at
\* least 1 second; remindme goes on to its confirmation only with a
\* duration that parses and otherwise answers with the format error; a
\* reminder is created only with the parsed delay of such a call; mute
\* with a duration that does not parse arms nothing and touches no entry;
\* and the step that answers with a format error creates nothing.
C8_NoZeroDelay ==
    [][/\ \A t \in TaskIds : Alive(t)' => tasks'[t].seconds >= 1
       /\ \A r \in ReminderIds :
            reminders'[r].pc # "nil" => reminders'[r].seconds >= 1
       /\ \A a \in Invokers :
            /\ (calls[a] = Idle /\ calls'[a].cmd = "remindme")
                 => parse_duration_to_seconds(calls'[a].duration).ok
            /\ (calls[a].cmd = "mute" /\ calls[a].pc = "send"
                  /\ calls'[a] # calls[a]
                  /\ ~parse_duration_to_seconds(calls[a].duration).ok)
                 => (tasks' = tasks /\ scheduled_unmutes' = scheduled_unmutes)
            /\ (calls'[a].pc \in ErrorReplies /\ calls[a].pc \notin ErrorReplies)
                 => /\ tasks' = tasks /\ reminders' = reminders
                    /\ scheduled_unmutes' = scheduled_unmutes
       /\ \A r \in ReminderIds :
            (reminders[r].pc = "nil" /\ reminders'[r].pc # "nil")
              => \E a \in Invokers :
                   /\ calls[a].pc = "remind_confirm"
                   /\ parse_duration_to_seconds(calls[a].duration)
                        = Return(reminders'[r].seconds)]_vars

\* C8 witness: mute was given a duration that does not parse and answers
\* with the error; the member is muted, no auto-unmute exists, and a
\* reminder armed earlier with a delay that parsed is waiting.
C8_Witness ==
    \E a \in Invokers, r \in ReminderIds :
        /\ calls[a].pc = "mute_error"
        /\ \A t \in TaskIds : ~Alive(t)
        /\ \E k \in muted : scheduled_unmutes[k] = 0
        /\ reminders[r].pc \in {"new", "sleep"} /\ reminders[r].seconds >= 1

(***************************************************************************)
(* The (integer)(unit) pairs of a text, stated without the scan: a pair is *)
(* a maximal run of digits that is directly followed by a unit character,  *)
(* letter case and spaces set aside.                                       *)
(***************************************************************************)
RunEnd(t, i) == MaxOf({j \in i..Len(t) : \A k \in i..j : t[k] \in Digits})

IsPairStart(t, i) ==
    /\ t[i] \in Digits
    /\ (i = 1 \/ t[i - 1] \notin Digits)
    /\ RunEnd(t, i) < Len(t)
    /\ t[RunEnd(t, i) + 1] \in UnitChars

PairStarts(t) == {i \in 1..Len(t) : IsPairStart(t, i)}

PairText(t, i) == SubSeq(t, i, RunEnd(t, i) + 1)

PairValue(t, i) == ToInt(SubSeq(t, i, RunEnd(t, i))) * units(t[RunEnd(t, i) + 1])

RECURSIVE SumPairs(_, _)
SumPairs(t, S) ==
    IF S = {} THEN 0
    ELSE LET i == CHOOSE i \in S : TRUE
         IN  PairValue(t, i) + SumPairs(t, S \ {i})

PairSum(txt) == LET t == Normalise(txt) IN SumPairs(t, PairStarts(t))

\* The pairs of a text in their order, as a sequence of texts.
RECURSIVE PairList(_, _)
PairList(t, S) ==
    IF S = {} THEN <<>>
    ELSE LET i == CHOOSE i \in S : \A j \in S : i <= j
         IN  <<PairText(t, i)>> \o PairList(t, S \ {i})

Perms(n) == {p \in [1..n -> 1..n] : \A i, j \in 1..n : p[i] = p[j] => i = j}

RECURSIVE Concat(_)
Concat(ss) == IF ss = <<>> THEN <<>> ELSE Head(ss) \o Concat(Tail(ss))

\* The text made of the pairs alone, in the order p.
Reordered(txt, p) ==
    LET t == Normalise(txt)
        l == PairList(t, PairStarts(t))
    IN  Concat([i \in 1..Len(l) |-> l[p[i]]])

UpperChar(c) ==
    CASE c = "s" -> "S" [] c = "m" -> "M" [] c = "h" -> "H"
      [] c = "d" -> "D" [] c = "w" -> "W" [] OTHER -> c

Upper(t) == [i \in 1..Len(t) |-> UpperChar(t[i])]

WhitespaceOnly(t) == \A i \in 1..Len(t) : IsSpace(t[i])

Parsed == result # NotRun

\* C9: parse_duration_to_seconds raises for a text that is empty or all
\* whitespace, for a text with no (integer)(unit) pair, and for a text whose
\* pairs sum to zero - "", "abc" and "0s" among them; a value it returns is
\* an integer of at least 1.
C9_FailsOrPositive ==
    Parsed =>
      /\ WhitespaceOnly(text) => ~result.ok
      /\ PairStarts(Normalise(text)) = {} => ~result.ok
      /\ PairSum(text) = 0 => ~result.ok
      /\ text \in {<<>>, <<"a", "b", "c">>, <<"0", "s">>} => ~result.ok
      /\ result.ok => (result.val \in Nat /\ result.val >= 1)

\* C9 witness: "0s" was parsed and raised.
C9_Witness == Parsed /\ text = <<"0", "s">> /\ ~result.ok

\* C10: the value parse_duration_to_seconds returns is the sum of amount
\* times unit-seconds over the pairs of the text, and it raises when that
\* sum is zero; the outcome is the same for the text in upper case, for
\* the text with its spaces taken out, and for the pairs alone written in
\* any order; "1h30m" and "30m1h" give 5400.
C10_SumOfPairs ==
    Parsed =>
      /\ result = IF PairSum(text) = 0 THEN Raise ELSE Return(PairSum(text))
      /\ parse_duration_to_seconds(Upper(text)) = result
      /\ parse_duration_to_seconds(Lower(text)) = result
      /\ parse_duration_to_seconds(RemoveSpaces(text)) = result
      /\ \A p \in Perms(Cardinality(PairStarts(Normalise(text)))) :
           parse_duration_to_seconds(Reordered(text, p)) = result
      /\ text \in {<<"1", "h", "3", "0", "m">>, <<"3", "0", "m", "1", "h">>}
           => result = Return(5400)

\* C10 witness: "30m1h", the pairs of "1h30m" in the other order, was
\* parsed and gave 5400.
C10_Witness ==
    /\ Parsed /\ text = <<"3", "0", "m", "1", "h">> /\ result = Return(5400)
    /\ \E p \in Perms(2) : Reordered(text, p) = <<"1", "h", "3", "0", "m">>

(***************************************************************************)
(* The message router: on_message, bot.process_commands and the cooldown   *)
(* of the command it invokes.                                              *)
(***************************************************************************)
Max(x, y) == IF x >= y THEN x ELSE y

\* Mutant: the tokens are never refilled.
get_tokens_NoRefill(c, current) == Max(c.tokens, 0)

\* Cooldown.get_tokens(current)
get_tokens(c, current) ==
    IF current > c.window + per THEN rate ELSE Max(c.tokens, 0)

\* Cooldown.update_rate_limit(current): the Cooldown afterwards and the
\* retry-after it returns (0 for None).
update_rate_limit(c, current) ==
    LET tokens == get_tokens(c, current)
        window == IF tokens = rate THEN current ELSE c.window
    IN  [cooldown |-> [window |-> window, tokens |-> tokens - 1],
         retry_after |-> IF tokens - 1 < 0 THEN per - (current - window) ELSE 0]

Contents == {"$pass", "$flip"}

\* The command a message content invokes.
CommandOf(content) == IF content = "$pass" THEN "pass" ELSE "flip"

\* What on_message sends by itself in a direct message, before it hands the
\* message to process_commands: gen_pass(10) for a text that starts with
\* "$pass", the whisper echo otherwise; nothing in a guild channel.
DirectReply(dm, content) ==
    IF ~dm THEN "none"
    ELSE IF content = "$pass" THEN "password" ELSE "whisper"

\* on_message for a message of user u with the given content, in a direct
\* message channel (dm) or a guild channel.  process_commands raises
\* CommandOnCooldown when update_rate_limit returns a retry-after that is
\* not zero, and on_command_error answers "Slow down! Try again in ..";
\* otherwise the command body runs and sends its generated content.
on_message(u, dm, content) ==
    LET cmd == CommandOf(content)
        upd == update_rate_limit(buckets[<<u, cmd>>], now)
    IN  /\ Len(hist) < MaxMsgs
        /\ buckets' = [buckets EXCEPT ![<<u, cmd>>] = upd.cooldown]
        /\ hist' = Append(hist,
                     [at |-> now, user |-> u, cmd |-> cmd, dm |-> dm,
                      direct |-> DirectReply(dm, content),
                      ran |-> upd.retry_after = 0,
                      retry_after |-> upd.retry_after])
        /\ UNCHANGED <<now, chooseVars, guildVars, parseVars, members, muted,
                       scheduled_unmutes, tasks, reminders, calls, event>>

\* A second passes.
ChatTick ==
    /\ now < MaxNow
    /\ now' = now + 1
    /\ UNCHANGED <<buckets, hist, chooseVars, guildVars, parseVars, members,
                   muted, scheduled_unmutes, tasks, reminders, calls, event>>

NextChat ==
    \/ \E u \in ChatUsers, dm \in BOOLEAN, content \in Contents :
         on_message(u, dm, content)
    \/ ChatTick

SpecChat == Init /\ [][NextChat]_vars

\* The earlier messages that invoked the command of message i for its user.
Earlier(i) ==
    {j \in 1..(i - 1) : hist[j].user = hist[i].user /\ hist[j].cmd = hist[i].cmd}

\* C11: of the first three invocations of one command by one user, made
\* less than 5 seconds apart, the first two are admitted and the third is
\* rejected with the time left of the window, which is more than 0, as its
\* retry-after; a rejected invocation does not run the command body and an
\* admitted one has no retry-after; an invocation made more than 5 seconds
\* after every earlier one of its bucket is admitted.
C11_TwoPerFive ==
    /\ \A i, j, k \in 1..Len(hist) :
         (/\ Earlier(i) = {} /\ Earlier(j) = {i} /\ Earlier(k) = {i, j}
          /\ hist[k].at - hist[i].at < per)
           => /\ hist[i].ran /\ hist[j].ran /\ ~hist[k].ran
              /\ hist[k].retry_after = per - (hist[k].at - hist[i].at)
    /\ \A l \in 1..Len(hist) :
         /\ ~hist[l].ran => hist[l].retry_after > 0
         /\ hist[l].ran => hist[l].retry_after = 0
         /\ (\A e \in Earlier(l) : hist[e].at + per < hist[l].at) => hist[l].ran

\* C11 witness: three $pass within 5 seconds, the third rejected, and a
\* fourth after the window, admitted.
C11_Witness ==
    /\ Len(hist) = 4
    /\ \A i \in 1..4 : hist[i].cmd = "pass"
    /\ hist[3].at - hist[1].at < per
    /\ hist[1].ran /\ hist[2].ran /\ ~hist[3].ran /\ hist[3].retry_after > 0
    /\ hist[4].at > hist[1].at + per /\ hist[4].ran

\* C12: a generated password is sent only for a message whose cooldown
\* check passed, and only by the command body behind that check.
C12_GeneratedBehindGate ==
    \A i \in 1..Len(hist) :
        /\ (hist[i].cmd = "pass" /\ ~hist[i].ran) => hist[i].direct # "password"
        /\ hist[i].direct # "password"

(***************************************************************************)
(* choose                                                                  *)
(***************************************************************************)
\* str.split("|"): the pieces between the separators, empty ones included.
RECURSIVE Split(_)
Split(t) ==
    IF \A i \in 1..Len(t) : t[i] # "|" THEN <<t>>
    ELSE LET i == CHOOSE i \in 1..Len(t) :
                     t[i] = "|" /\ \A j \in 1..(i - 1) : t[j] # "|"
         IN  <<SubSeq(t, 1, i - 1)>> \o Split(SubSeq(t, i + 1, Len(t)))

\* Mutant: the pieces as split gives them, neither trimmed nor filtered.
Parts_Raw(t) == Split(t)

\* [p.strip() for p in options.split("|") if p.strip()]
Parts(t) ==
    LET ps == Split(t) IN
    SelectSeq([i \in 1..Len(ps) |-> Strip(ps[i])], LAMBDA p : p # <<>>)

\* The body of choose, one step: the usage reply with fewer than two parts,
\* and otherwise "I choose: **pick**" for the pick of random.choice(parts).
choose ==
    LET parts == Parts(options) IN
    /\ choice = NotChosen
    /\ IF Len(parts) < 2
       THEN choice' = [reply |-> "usage", pick |-> <<>>]
       ELSE \E i \in 1..Len(parts) :
              choice' = [reply |-> "choose", pick |-> parts[i]]
    /\ UNCHANGED <<options, chatVars, guildVars, parseVars, members, muted,
                   scheduled_unmutes, tasks, reminders, calls, event>>

OptionAlphabet == {"a", "b", " ", "\t", "|"}

RECURSIVE OptionsOfLen(_)
OptionsOfLen(n) ==
    IF n = 0 THEN {<<>>}
    ELSE {<<c>> \o t : c \in OptionAlphabet, t \in OptionsOfLen(n - 1)}

TacosSushi == <<"t", "a", "c", "o", "s", " ", "|", " ", "s", "u", "s", "h", "i">>
OnlyOne == <<"o", "n", "l", "y", "o", "n", "e">>

\* The arguments the command parser hands to choose: the rest of the
\* message, which is not empty and has no whitespace at its ends.
OptionTexts ==
    {t \in UNION {OptionsOfLen(n) : n \in 1..MaxOptLen} : Strip(t) = t}
      \cup {TacosSushi, OnlyOne}

InitChoose ==
    /\ text = <<>>
    /\ result = NotRun
    /\ BotInit
    /\ ChatInit
    /\ GuildInit
    /\ options \in OptionTexts
    /\ choice = NotChosen

NextChoose == choose

SpecChoose == InitChoose /\ [][NextChoose]_vars

\* The options of a text, stated by position: a piece is what lies between
\* two neighbouring cuts (a cut is a "|", the start or the end), and its
\* trimmed form runs from its first to its last character that is not
\* whitespace.
Cuts(t) == {0, Len(t) + 1} \cup {i \in 1..Len(t) : t[i] = "|"}

Pieces(t) ==
    {c \in Cuts(t) \X Cuts(t) :
        c[1] < c[2] /\ \A m \in Cuts(t) : ~(c[1] < m /\ m < c[2])}

Inked(t, c) == {i \in (c[1] + 1)..(c[2] - 1) : ~IsSpace(t[i])}

MinOf(S) == CHOOSE n \in S : \A m \in S : n <= m

Trimmed(t, c) == SubSeq(t, MinOf(Inked(t, c)), MaxOf(Inked(t, c)))

Remaining(t) == {c \in Pieces(t) : Inked(t, c) # {}}

\* C14: with fewer than 2 options left after splitting on "|", trimming
\* and dropping the empty parts, choose replies with the usage message and
\* names nothing; otherwise it names one of the trimmed options that are
\* left; for "tacos | sushi" that is "tacos" or "sushi", for "onlyone" the
\* usage message.
C14_PicksAnOption ==
    choice # NotChosen =>
      /\ Cardinality(Remaining(options)) < 2
           => choice = [reply |-> "usage", pick |-> <<>>]
      /\ Cardinality(Remaining(options)) >= 2
           => /\ choice.reply = "choose"
              /\ \E c \in Remaining(options) : choice.pick = Trimmed(options, c)
      /\ options = TacosSushi
           => /\ choice.reply = "choose"
              /\ choice.pick \in {<<"t", "a", "c", "o", "s">>,
                                  <<"s", "u", "s", "h", "i">>}
      /\ options = OnlyOne => choice.reply = "usage"

\* C14 witness: "tacos | sushi" was given and "sushi" is named.
C14_Witness ==
    /\ options = TacosSushi
    /\ choice = [reply |-> "choose", pick |-> <<"s", "u", "s", "h", "i">>]

(***************************************************************************)
(* The other moderation commands that act on a target member, and the      *)
(* hierarchy they check.                                                   *)
(***************************************************************************)
Invoke(a, k, cmd, label) ==
    calls' = [calls EXCEPT ![a] =
                [cmd |-> cmd, key |-> k, duration |-> None, pc |-> label]]

\* $kick <member> and $ban <member>: _can_act and the bot's own top role
\* are checked, then member.kick() or member.ban() is awaited.
kick(a, k) ==
    /\ calls[a] = Idle /\ KeyLive(k)
    /\ IF ~_can_act(a, k[2]) \/ ~BotAbove(k[2])
       THEN Reply(a, "denied")
       ELSE Invoke(a, k, "kick", "remove")
    /\ event' = NoEvent
    /\ UNCHANGED <<parseVars, restVars, members, muted, scheduled_unmutes, tasks, reminders>>

ban(a, k) ==
    /\ calls[a] = Idle /\ KeyLive(k)
    /\ IF ~_can_act(a, k[2]) \/ ~BotAbove(k[2])
       THEN Reply(a, "denied")
       ELSE Invoke(a, k, "ban", "remove")
    /\ event' = NoEvent
    /\ UNCHANGED <<parseVars, restVars, members, muted, scheduled_unmutes, tasks, reminders>>

\* member.kick() or member.ban() succeeded: the member is gone from the
\* guild, and the reply is awaited.
MemberRemoved(a) ==
    LET k == calls[a].key IN
    /\ calls[a].cmd \in {"kick", "ban"} /\ calls[a].pc = "remove"
    /\ KeyLive(k) /\ GatewayLets(k[2])
    /\ members' = members \ {k}
    /\ muted' = muted \ {k}
    /\ Goto(a, "removed")
    /\ event' = NoEvent
    /\ UNCHANGED <<parseVars, restVars, scheduled_unmutes, tasks, reminders>>

\* member.kick() or member.ban() raised; the handler replies.
MemberRemoveFails(a) ==
    /\ calls[a].cmd \in {"kick", "ban"} /\ calls[a].pc = "remove"
    /\ Raised(a, TRUE)
    /\ event' = NoEvent
    /\ UNCHANGED <<parseVars, restVars, members, muted, scheduled_unmutes, tasks, reminders>>

\* $warn <member>: after _can_act the warning is appended to warnings_store
\* at once; the messages follow.
warn(a, k) ==
    /\ calls[a] = Idle /\ KeyLive(k)
    /\ IF ~_can_act(a, k[2])
       THEN Reply(a, "denied") /\ UNCHANGED warnings_store
       ELSE /\ warnings_store[k] < MaxWarnings
            /\ warnings_store' = [warnings_store EXCEPT ![k] = @ + 1]
            /\ Invoke(a, k, "warn", "warned")
    /\ event' = NoEvent
    /\ UNCHANGED <<parseVars, chatVars, chooseVars, hier, nicks, members, muted,
                   scheduled_unmutes, tasks, reminders>>

\* $nickname <member> <new_name>: after _can_act, member.edit(nick=...) is
\* awaited.
nickname(a, k) ==
    /\ calls[a] = Idle /\ KeyLive(k)
    /\ IF ~_can_act(a, k[2])
       THEN Reply(a, "denied")
       ELSE nicks[k] = "" /\ Invoke(a, k, "nickname", "edit")
    /\ event' = NoEvent
    /\ UNCHANGED <<parseVars, restVars, members, muted, scheduled_unmutes, tasks, reminders>>

NicknameEdited(a) ==
    LET k == calls[a].key IN
    /\ calls[a].cmd = "nickname" /\ calls[a].pc = "edit"
    /\ KeyLive(k) /\ GatewayLets(k[2])
    /\ nicks' = [nicks EXCEPT ![k] = "new_name"]
    /\ Goto(a, "renamed")
    /\ event' = NoEvent
    /\ UNCHANGED <<parseVars, chatVars, chooseVars, hier, warnings_store, members,
                   muted, scheduled_unmutes, tasks, reminders>>

NicknameFails(a) ==
    /\ calls[a].cmd = "nickname" /\ calls[a].pc = "edit"
    /\ \E handled \in BOOLEAN : Raised(a, handled)
    /\ event' = NoEvent
    /\ UNCHANGED <<parseVars, restVars, members, muted, scheduled_unmutes, tasks, reminders>>

\* $giverole <member> Muted: after _role_height_ok, member.add_roles(role)
\* is awaited.
giverole(a, k) ==
    /\ calls[a] = Idle /\ KeyLive(k)
    /\ IF ~_role_height_ok
       THEN Reply(a, "denied")
       ELSE k \notin muted /\ Invoke(a, k, "giverole", "add_roles")
    /\ event' = NoEvent
    /\ UNCHANGED <<parseVars, restVars, members, muted, scheduled_unmutes, tasks, reminders>>

GiveRoleAdded(a) ==
    LET k == calls[a].key IN
    /\ calls[a].cmd = "giverole" /\ calls[a].pc = "add_roles"
    /\ KeyLive(k) /\ _role_height_ok
    /\ muted' = muted \cup {k}
    /\ Goto(a, "role_added")
    /\ event' = NoEvent
    /\ UNCHANGED <<parseVars, restVars, members, scheduled_unmutes, tasks, reminders>>

GiveRoleFails(a) ==
    /\ calls[a].cmd = "giverole" /\ calls[a].pc = "add_roles"
    /\ Raised(a, TRUE)
    /\ event' = NoEvent
    /\ UNCHANGED <<parseVars, restVars, members, muted, scheduled_unmutes, tasks, reminders>>

\* Between two commands the guild's administrators rearrange the roles or
\* hand over the guild.
RolesChange(h) ==
    /\ \A a \in Invokers : calls[a] = Idle
    /\ h # hier
    /\ hier' = h
    /\ event' = NoEvent
    /\ UNCHANGED <<parseVars, chatVars, chooseVars, nicks, warnings_store, members,
                   muted, scheduled_unmutes, tasks, reminders, calls>>

Commands ==
    \/ \E a \in Invokers, k \in OneMember : kick(a, k)
    \/ \E a \in Invokers, k \in OneMember : ban(a, k)
    \/ \E a \in Invokers : MemberRemoved(a)
    \/ \E a \in Invokers : MemberRemoveFails(a)
    \/ \E a \in Invokers, k \in OneMember : warn(a, k)
    \/ \E a \in Invokers, k \in OneMember : nickname(a, k)
    \/ \E a \in Invokers : NicknameEdited(a)
    \/ \E a \in Invokers : NicknameFails(a)
    \/ \E a \in Invokers, k \in OneMember : giverole(a, k)
    \/ \E a \in Invokers : GiveRoleAdded(a)
    \/ \E a \in Invokers : GiveRoleFails(a)
    \/ \E h \in Hierarchies : RolesChange(h)

NextPerm == Commands \/ Moderation(OneMember)

SpecPerm == Init /\ [][NextPerm]_vars

\* What the commands can change about the member of key k.
Subject(k) ==
    <<k \in members, k \in muted, nicks[k], warnings_store[k],
      scheduled_unmutes[k],
      {<<t, tasks[t].cancelReq>> : t \in {u \in TaskIds : tasks[u].key = k}}>>

\* The command that invoker a has in flight or invokes in this step.
CommandOfCall(a) == IF calls[a] = Idle THEN calls'[a].cmd ELSE calls[a].cmd

\* The bot lacks the capability the command needs on the target.
BotLacks(cmd, target) ==
    IF cmd \in {"kick", "ban", "nickname"} THEN ~GatewayLets(target)
    ELSE IF cmd \in {"mute", "unmute", "giverole"} THEN ~_role_height_ok
    ELSE FALSE

\* A step of $removerole: the Muted role goes and no handler in flight,
\* task or departure is behind it.
RemoveroleStep(k) ==
    /\ k \in muted /\ k \notin muted'
    /\ UNCHANGED <<calls, tasks, members>>

\* C13: while the invoker cannot act on the target under the hierarchy
\* rule, or the bot lacks what the command needs, no step of a command of
\* that invoker changes anything about the target - membership, Muted
\* role, nickname, warnings, scheduled_unmutes entry, cancellation of its
\* tasks.
C13_DenialBeforeMutation ==
    [][\A a \in Invokers, k \in Keys :
         /\ (~_can_act(a, k[2]) /\ RemoveroleStep(k)) => FALSE
         /\ (/\ calls'[a] # calls[a]
             /\ {calls[a].key, calls'[a].key} \subseteq {k, <<>>}
             /\ (~_can_act(a, k[2]) \/ BotLacks(CommandOfCall(a), k[2])))
              => Subject(k)' = Subject(k)]_vars

\* C15: an auto-unmute task takes the Muted role off a member only when
\* it was armed by the member's current mute, and then not before the
\* duration of that mute has elapsed.
C15_OnlyOwnMute ==
    [][\A t \in TaskIds :
         (/\ event' = TaskEvent(t, "remove_roles")
          /\ tasks[t].key \in muted /\ tasks[t].key \notin muted')
           => (~tasks[t].stale /\ tasks[t].left = 0)]_vars

\* C16: when the handler of a mute command that was given a duration
\* argument has sent its "Muted" reply and has dealt with the duration, and
\* the member has the Muted role, an auto-unmute is armed for the member's
\* key and is the entry of that key.
C16_MutedHasTimer ==
    [][\A a \in Invokers :
         (/\ calls[a].cmd = "mute" /\ calls[a].pc = "send"
          /\ calls[a].duration # None
          /\ calls'[a] # calls[a]
          /\ calls'[a].pc \notin {"forbidden", "command_error"}
          /\ calls[a].key \in muted')
           => \E t \in TaskIds :
                /\ tasks'[t].key = calls[a].key
                /\ tasks'[t].pc = "new" /\ ~tasks'[t].cancelReq
                /\ scheduled_unmutes'[calls[a].key] = t]_vars

(***************************************************************************)
(* Reminders under fairness: the event loop runs every _remind task that   *)
(* can run, and time passes while a task sleeps.                           *)
(***************************************************************************)
\* A step of the _remind task r.
ReminderStep(r) ==
    \/ ReminderStart(r)
    \/ ReminderWake(r)
    \/ ReminderDM(r)
    \/ ReminderFallback(r)

ReminderFairness ==
    /\ WF_vars(Tick)
    /\ \A r \in ReminderIds : WF_vars(ReminderStep(r))

\* The reminders next to another command of the same invoker.
NextReminders ==
    \/ Reminding
    \/ Tick
    \/ \E a \in Invokers, k \in OneMember : warn(a, k)
    \/ \E a \in Invokers : Replied(a)

FairReminders == Init /\ [][NextReminders]_vars /\ ReminderFairness

\* The reminder r is pending: its task exists and has not ended.
Pending(r) == reminders[r].pc # "nil"

\* The reminder r was delivered in this step.
Delivered(r) ==
    event' \in {ReminderEvent(r, "dm"), ReminderEvent(r, "channel")}

\* The task r has ended: delivered, or the send it awaited raised.
Outcome(r) ==
    event \in {ReminderEvent(r, "dm"), ReminderEvent(r, "channel"),
               ReminderEvent(r, "failed")}

\* C17 as stated: a pending reminder ends only by being delivered.
C17_ExactlyOneDelivery ==
    [][\A r \in ReminderIds :
         (Pending(r) /\ ~Pending(r)') => Delivered(r)]_vars

\* C17: a reminder is delivered at most once, after its delay, first tried
\* as a direct message and sent to the channel only after the direct
\* message was forbidden; it ends only by a delivery or by a send that
\* raised; no command and no other reminder changes it; and every pending
\* reminder comes to its end.
C17_DeliveredOnceInOrder ==
    /\ [][\A r \in ReminderIds :
            /\ Delivered(r) => (reminders[r].left = 0 /\ ~Pending(r)')
            /\ event' = ReminderEvent(r, "dm") => reminders[r].pc = "dm"
            /\ event' = ReminderEvent(r, "channel")
                 => reminders[r].pc = "fallback"
            /\ (reminders'[r].pc = "fallback" /\ reminders[r].pc # "fallback")
                 => (reminders[r].pc = "dm" /\ event' = NoEvent)
            /\ (Pending(r) /\ ~Pending(r)') => Outcome(r)'
            /\ (Pending(r) /\ reminders'[r] # reminders[r])
                 => /\ calls' = calls
                    /\ warnings_store' = warnings_store
                    /\ \A q \in ReminderIds \ {r} :
                         reminders'[q].pc = reminders[q].pc]_vars
    /\ \A r \in ReminderIds : Pending(r) ~> Outcome(r)

\* A reminder went to the channel while another one was pending.
C17_Witness ==
    \E r \in ReminderIds :
      /\ event = ReminderEvent(r, "channel")
      /\ \E q \in ReminderIds \ {r} : Pending(q)

====
